---- MODULE Spec2Model ----
(***************************************************************************)
(* Model of xray_import_results.py: the status mapper, the MagicPod to     *)
(* Xray report converter, the Xray uploader and the script's entry point.  *)
(*                                                                         *)
(* Python strings are sequences of one-character strings, so that lower(), *)
(* split(), strip() and the `in` operator are computed, not assumed.       *)
(* Python dicts are functions; a missing key is a key outside DOMAIN.      *)
(***************************************************************************)
EXTENDS Integers, Sequences, FiniteSets, TLC

VARIABLES
    mp_status,   \* argument of a map_status call
    status,      \* what that call returned ("pending" before the call)
    mp_file,     \* the file named by --magicpod-json
    summary,     \* the summary argument (None when not given)
    execution,   \* outcome of convert_magicpod_to_xray (Pending before the call)
    pc,          \* position of the __main__ script
    args,        \* parsed command line: client_id, client_secret
    token,       \* XrayResultImporter.token
    resp,        \* response of the import request (Pending before it arrives)
    network,     \* requests sent so far, in order
    stdout       \* what the script printed so far, in order

vars == <<mp_status, status, mp_file, summary, execution, pc, args, token, resp,
          network, stdout>>

-----------------------------------------------------------------------------
(* Python values *)

\* Python's None: a one-element tuple whose element is no character, so it
\* differs from every string and every list of the model.
None == <<"None">>

\* A call that has not been made yet.
Pending == [kind |-> "pending"]

\* Truthiness of a string-or-None value: None and "" are falsy.
Truthy(x) == x # None /\ x # <<>>

\* dict.get(key, default)
Get(d, key, default) == IF key \in DOMAIN d THEN d[key] ELSE default

\* The empty dict {} and the empty list [].
EmptyDict == <<>>

\* `c in s` for a one-character c.
HasChar(s, c) == \E i \in 1..Len(s) : s[i] = c

\* `x in s` for strings: x occurs in s as a contiguous substring.
IsSubstring(x, s) ==
    \E i \in 0..(Len(s) - Len(x)) : SubSeq(s, i + 1, i + Len(x)) = x

\* The letters of the model, lower case to upper case.
Upper ==
    [c \in {"a", "c", "d", "e", "f", "i", "k", "l", "p", "s", "u", "x"} |->
        CASE c = "a" -> "A" [] c = "c" -> "C" [] c = "d" -> "D" [] c = "e" -> "E"
          [] c = "f" -> "F" [] c = "i" -> "I" [] c = "k" -> "K" [] c = "l" -> "L"
          [] c = "p" -> "P" [] c = "s" -> "S" [] c = "u" -> "U" [] c = "x" -> "X"]

LowerChar(c) ==
    IF \E l \in DOMAIN Upper : Upper[l] = c
    THEN CHOOSE l \in DOMAIN Upper : Upper[l] = c
    ELSE c

\* A bug lower() could have: it leaves the string as it is.
lower_identity(s) == s

\* str.lower()
lower(s) == [i \in 1..Len(s) |-> LowerChar(s[i])]

-----------------------------------------------------------------------------
(* map_status *)

succeeded == <<"s", "u", "c", "c", "e", "e", "d", "e", "d">>
failed == <<"f", "a", "i", "l", "e", "d">>
skipped == <<"s", "k", "i", "p", "p", "e", "d">>

\* ("succeeded") is a parenthesised string, not a tuple: `in` is the
\* substring test.
map_status(s) ==
    LET st == lower(IF Truthy(s) THEN s ELSE <<>>)
    IN  IF IsSubstring(st, succeeded) THEN "PASSED"
        ELSE IF IsSubstring(st, failed) THEN "FAILED"
        ELSE IF st = skipped THEN "TODO"
        ELSE "TODO"

-----------------------------------------------------------------------------
(* Inputs of the status mapper *)

MaxStatusLen == 3

StatusChars == {"s", "S", "e", "d", "f", "x"}

\* Every sequence of at most n elements of S.
RECURSIVE SeqsUpTo(_, _)
SeqsUpTo(S, n) ==
    IF n = 0 THEN {<<>>}
    ELSE LET shorter == SeqsUpTo(S, n - 1)
         IN  shorter \cup {Append(s, c) : s \in shorter, c \in S}

\* Every upper/lower-case spelling of a lower-case word.
CaseSpellings(w) ==
    {[i \in 1..Len(w) |-> IF i \in S THEN Upper[w[i]] ELSE w[i]] :
        S \in SUBSET (1..Len(w))}

passed == <<"p", "a", "s", "s", "e", "d">>

StatusInputs ==
    {None} \cup SeqsUpTo(StatusChars, MaxStatusLen)
           \cup CaseSpellings(succeeded) \cup CaseSpellings(failed)
           \cup CaseSpellings(skipped) \cup CaseSpellings(passed)

-----------------------------------------------------------------------------
(* The status mapper called on its own *)

Idle ==
    /\ mp_file = [kind |-> "missing"]
    /\ summary = None
    /\ execution = Pending
    /\ pc = "idle"
    /\ args = EmptyDict
    /\ token = None
    /\ resp = Pending
    /\ network = <<>>
    /\ stdout = <<>>

InitMapStatus ==
    /\ mp_status \in StatusInputs
    /\ status = "pending"
    /\ Idle

MapStatusCall ==
    /\ status = "pending"
    /\ status' = map_status(mp_status)
    /\ UNCHANGED <<mp_status, mp_file, summary, execution, pc, args, token, resp,
                   network, stdout>>

NextMapStatus == MapStatusCall

SpecMapStatus == InitMapStatus /\ [][NextMapStatus]_vars

-----------------------------------------------------------------------------
(* convert_magicpod_to_xray *)

Index1(s, c) == CHOOSE i \in 1..Len(s) : s[i] = c /\ \A j \in 1..(i - 1) : s[j] # c

\* str.split(sep) for a one-character sep: the pieces between the separators.
RECURSIVE split(_, _)
split(s, sep) ==
    IF ~HasChar(s, sep) THEN <<s>>
    ELSE <<SubSeq(s, 1, Index1(s, sep) - 1)>>
            \o split(SubSeq(s, Index1(s, sep) + 1, Len(s)), sep)

RECURSIVE lstrip(_, _)
lstrip(s, c) == IF s # <<>> /\ Head(s) = c THEN lstrip(Tail(s), c) ELSE s

RECURSIVE rstrip(_, _)
rstrip(s, c) ==
    IF s # <<>> /\ s[Len(s)] = c THEN rstrip(SubSeq(s, 1, Len(s) - 1), c) ELSE s

\* A bug strip() could have: it removes nothing.
strip_nothing(s, c) == s

\* str.strip(c) for a one-character c: every leading and trailing c goes.
strip(s, c) == rstrip(lstrip(s, c), c)

UnnamedTest == <<"U", "n", "n", "a", "m", "e", "d", " ", "T", "e", "s", "t">>

CommentPrefix ==
    <<"I", "m", "p", "o", "r", "t", "e", "d", " ", "f", "r", "o", "m", " ", "M",
      "a", "g", "i", "c", "P", "o", "d", ".", " ", "O", "r", "i", "g", "i", "n",
      "a", "l", " ", "t", "e", "s", "t", ":", " ">>

SummaryPrefix ==
    <<"M", "a", "g", "i", "c", "P", "o", "d", " ", "B", "a", "t", "c", "h", " ",
      "R", "u", "n", ":", " ">>

DescriptionPrefix ==
    <<"I", "m", "p", "o", "r", "t", "e", "d", " ", "a", "u", "t", "o", "m", "a",
      "t", "i", "c", "a", "l", "l", "y", " ", "f", "r", "o", "m", " ", "M", "a",
      "g", "i", "c", "P", "o", "d", ".", " ", "\n", " ", "M", "a", "g", "i", "c",
      "P", "o", "d", " ", "U", "R", "L", ":", " ">>

test_name_of(result) == Get(Get(result, "test_case", EmptyDict), "name", UnnamedTest)

\* candidate = test_name.split("[")[-1].strip("]")
candidate_of(test_name) ==
    LET pieces == split(test_name, "[")
    IN  strip(pieces[Len(pieces)], "]")

\* A bug the key test could have: `or` for `and` between the bracket tests.
test_key_or(test_name) ==
    IF (HasChar(test_name, "[") \/ HasChar(test_name, "]"))
       /\ HasChar(candidate_of(test_name), "-")
    THEN candidate_of(test_name)
    ELSE None

\* test_key: None unless the name has a "[" and a "]" and the candidate a "-".
test_key_of(test_name) ==
    IF HasChar(test_name, "[") /\ HasChar(test_name, "]")
       /\ HasChar(candidate_of(test_name), "-")
    THEN candidate_of(test_name)
    ELSE None

\* A bug the entry could have: testInfo is always filled in.
test_entry_always_info(result) ==
    LET test_name == test_name_of(result)
        entry == [status |-> map_status(Get(result, "status", <<>>)),
                  comment |-> CommentPrefix \o test_name,
                  testInfo |-> [summary |-> test_name, type |-> "Manual"]]
    IN  IF Truthy(test_key_of(test_name))
        THEN entry @@ [testKey |-> test_key_of(test_name)]
        ELSE entry

\* The body of the inner loop: the test_entry built from one result record.
test_entry(result) ==
    LET test_name == test_name_of(result)
        entry == [status |-> map_status(Get(result, "status", <<>>)),
                  comment |-> CommentPrefix \o test_name]
    IN  IF Truthy(test_key_of(test_name))
        THEN entry @@ [testKey |-> test_key_of(test_name)]
        ELSE entry @@ [testInfo |-> [summary |-> test_name, type |-> "Manual"]]

\* A bug the inner loop could have: a result equal to the one just appended
\* is dropped.
RECURSIVE results_loop_dedup(_, _)
results_loop_dedup(tests, results) ==
    IF results = <<>> THEN tests
    ELSE IF tests # <<>> /\ tests[Len(tests)] = test_entry(Head(results))
    THEN results_loop_dedup(tests, Tail(results))
    ELSE results_loop_dedup(Append(tests, test_entry(Head(results))), Tail(results))

\* for result in detail.get("results", []): ... execution["tests"].append(...)
RECURSIVE results_loop(_, _)
results_loop(tests, results) ==
    IF results = <<>> THEN tests
    ELSE results_loop(Append(tests, test_entry(Head(results))), Tail(results))

\* for detail in details: ...
RECURSIVE details_loop(_, _)
details_loop(tests, details) ==
    IF details = <<>> THEN tests
    ELSE details_loop(results_loop(tests, Get(Head(details), "results", <<>>)),
                      Tail(details))

Raise(exc) == [kind |-> "raise", exc |-> exc]
Return(value) == [kind |-> "return", value |-> value]

\* The whole function: open and parse the file, the info block, the loops.
convert_magicpod_to_xray(file, summ) ==
    IF file.kind = "missing" THEN Raise("FileNotFoundError")
    ELSE IF file.kind = "unreadable" THEN Raise("PermissionError")
    ELSE IF file.kind = "invalid" THEN Raise("JSONDecodeError")
    ELSE LET mp == file.doc
         IN  IF Truthy(summ) THEN Raise("UnboundLocalError")
             ELSE IF "url" \notin DOMAIN mp THEN Raise("KeyError")
             ELSE Return(
                 [info |-> [summary |-> SummaryPrefix \o mp["url"],
                            description |-> DescriptionPrefix \o mp["url"]],
                  tests |-> details_loop(<<>>,
                      Get(Get(mp, "test_cases", EmptyDict), "details", <<>>))])

-----------------------------------------------------------------------------
(* Inputs of the converter *)

MaxNameLen == 5
MaxResults == 2
MaxGroups == 2

NameChars == {"[", "]", "-", "a"}

Names == SeqsUpTo(NameChars, MaxNameLen)

Url == <<"u", "r", "l">>

ResultRecords ==
    { [test_case |-> [name |-> <<"A", " ", "[", "X", "-", "1", "]">>],
       status |-> succeeded],
      [test_case |-> [name |-> <<"B">>], status |-> failed],
      [status |-> skipped] }

Groups == {[results |-> rs] : rs \in SeqsUpTo(ResultRecords, MaxResults)} \cup {EmptyDict}

DetailLists == SeqsUpTo(Groups, MaxGroups)

NameRecords == {[test_case |-> [name |-> n], status |-> succeeded] : n \in Names}

Reports ==
    {[url |-> Url, test_cases |-> [details |-> d]] : d \in DetailLists}
    \cup {[url |-> Url, test_cases |-> [details |-> <<[results |-> <<r>>]>>]] :
              r \in NameRecords}
    \cup {[url |-> Url, test_cases |-> EmptyDict], [url |-> Url],
          [test_cases |-> EmptyDict], EmptyDict}

Files ==
    {[kind |-> "missing"], [kind |-> "unreadable"], [kind |-> "invalid"]}
    \cup {[kind |-> "json", doc |-> mp] : mp \in Reports}

Summaries == {None, <<>>, <<"S">>}

-----------------------------------------------------------------------------
(* The converter called on its own *)

InitConvert ==
    /\ mp_file \in Files
    /\ summary \in Summaries
    /\ execution = Pending
    /\ mp_status = None
    /\ status = "pending"
    /\ pc = "idle"
    /\ args = EmptyDict
    /\ token = None
    /\ resp = Pending
    /\ network = <<>>
    /\ stdout = <<>>

ConvertCall ==
    /\ execution = Pending
    /\ execution' = convert_magicpod_to_xray(mp_file, summary)
    /\ UNCHANGED <<mp_status, status, mp_file, summary, pc, args, token, resp,
                   network, stdout>>

NextConvert == ConvertCall

SpecConvert == InitConvert /\ [][NextConvert]_vars

-----------------------------------------------------------------------------
(* Claims about map_status *)

KnownLabels == {succeeded, failed, skipped}

NormalisedInput == lower(IF Truthy(mp_status) THEN mp_status ELSE <<>>)

\* C1: every status whose lower-cased form is none of "succeeded", "failed",
\* "skipped" (the empty string and None included) maps to "TODO".
C1_UnknownIsTodo ==
    (status # "pending" /\ NormalisedInput \notin KnownLabels) => status = "TODO"

\* C2: every upper/lower-case spelling of "succeeded" maps to "PASSED", of
\* "failed" to "FAILED" and of "skipped" to "TODO".
C2_CaseInsensitive ==
    status # "pending" =>
        /\ mp_status \in CaseSpellings(succeeded) => status = "PASSED"
        /\ mp_status \in CaseSpellings(failed) => status = "FAILED"
        /\ mp_status \in CaseSpellings(skipped) => status = "TODO"

\* A mixed-case spelling of "succeeded" has been mapped.
C2_Witness ==
    /\ status = "PASSED"
    /\ mp_status = <<"S", "u", "c", "C", "E", "e", "d", "e", "D">>

-----------------------------------------------------------------------------
(* Claims about convert_magicpod_to_xray *)

Called == execution # Pending

Converted == execution.kind = "return"

Parsed == mp_file.kind = "json"

\* The result records of the source report in document order: the detail
\* groups in order, each group's results in order.
RECURSIVE Flatten(_)
Flatten(details) ==
    IF details = <<>> THEN <<>>
    ELSE Get(Head(details), "results", <<>>) \o Flatten(Tail(details))

SourceRecords ==
    Flatten(Get(Get(mp_file.doc, "test_cases", EmptyDict), "details", <<>>))

Tests == execution.value.tests

HasKeyOnly(e) == "testKey" \in DOMAIN e /\ "testInfo" \notin DOMAIN e

HasInfoOnly(e) == "testInfo" \in DOMAIN e /\ "testKey" \notin DOMAIN e

\* C3: a successful conversion yields one entry per result record, the i-th
\* entry built from the i-th record in document order.
C3_OneEntryPerRecordInOrder ==
    Converted =>
        /\ Len(Tests) = Len(SourceRecords)
        /\ \A i \in 1..Len(SourceRecords) : Tests[i] = test_entry(SourceRecords[i])

\* Two groups were converted, the first holding the same record twice.
C3_Witness ==
    /\ Converted
    /\ Len(Tests) = 3
    /\ Tests[1] = Tests[2]
    /\ Tests[2] # Tests[3]
    /\ Len(Get(Get(mp_file.doc, "test_cases", EmptyDict), "details", <<>>)) = 2

\* C4: every entry of `tests` carries exactly one of testKey and testInfo.
C4_KeyXorInfo ==
    Converted =>
        \A i \in 1..Len(Tests) :
            ("testKey" \in DOMAIN Tests[i]) # ("testInfo" \in DOMAIN Tests[i])

\* A document holding an entry with a key and an entry with inline info.
C4_Witness ==
    /\ Converted
    /\ \E i \in 1..Len(Tests) : HasKeyOnly(Tests[i])
    /\ \E i \in 1..Len(Tests) : HasInfoOnly(Tests[i])

HasBoth(n) == HasChar(n, "[") /\ HasChar(n, "]")

\* What follows the last "[" of a name that has one.
AfterLastOpen(n) ==
    LET k == CHOOSE i \in 1..Len(n) :
                 n[i] = "[" /\ \A j \in (i + 1)..Len(n) : n[j] # "["
    IN  SubSeq(n, k + 1, Len(n))

\* The candidate as the claim words it: one trailing "]" removed, no more.
OneTrailingStripped(a) ==
    IF a # <<>> /\ a[Len(a)] = "]" THEN SubSeq(a, 1, Len(a) - 1) ELSE a

\* The candidate with every leading and every trailing "]" removed: what
\* lies between the first and the last character other than "]".
AllOuterStripped(a) ==
    LET other == {i \in 1..Len(a) : a[i] # "]"}
    IN  IF other = {} THEN <<>>
        ELSE SubSeq(a, CHOOSE i \in other : \A j \in other : i <= j,
                       CHOOSE i \in other : \A j \in other : j <= i)

KeyIffHyphen(e, c) ==
    IF HasChar(c, "-") THEN HasKeyOnly(e) /\ e.testKey = c ELSE HasInfoOnly(e)

\* C5 as stated: for a name with a "[" and a "]" the candidate is what follows
\* the last "[" less one trailing "]"; testKey is that candidate iff it has a
\* "-", otherwise the entry has testInfo.
C5_Claim ==
    Converted =>
        \A i \in 1..Len(Tests) :
            LET n == test_name_of(SourceRecords[i])
            IN  HasBoth(n) => KeyIffHyphen(Tests[i], OneTrailingStripped(AfterLastOpen(n)))

\* C5 amended: the candidate is what follows the last "[" less every leading
\* and every trailing "]"; testKey is that candidate iff it has a "-",
\* otherwise the entry has testInfo.
C5_CandidateAllBracketsStripped ==
    Converted =>
        \A i \in 1..Len(Tests) :
            LET n == test_name_of(SourceRecords[i])
            IN  HasBoth(n) => KeyIffHyphen(Tests[i], AllOuterStripped(AfterLastOpen(n)))

\* The name "[]-]]" was converted: its key is "-".
C5_Witness ==
    /\ Converted
    /\ Len(Tests) = 1
    /\ test_name_of(SourceRecords[1]) = <<"[", "]", "-", "]", "]">>
    /\ HasKeyOnly(Tests[1])
    /\ Tests[1].testKey = <<"-">>

\* An opening "[" followed later by a closing "]".
HasPair(n) == \E i, j \in 1..Len(n) : i < j /\ n[i] = "[" /\ n[j] = "]"

InfoOfName(e, n) ==
    HasInfoOnly(e) /\ e.testInfo = [summary |-> n, type |-> "Manual"]

\* C6 as stated: a name without a "[" followed later by a "]" gets no key
\* and testInfo with the full name and type "Manual".
C6_Claim ==
    Converted =>
        \A i \in 1..Len(Tests) :
            LET n == test_name_of(SourceRecords[i])
            IN  ~HasPair(n) => InfoOfName(Tests[i], n)

\* C6 amended: a name that does not contain both a "[" and a "]" character
\* gets no key and testInfo with the full name and type "Manual".
C6_NoBracketsNoKey ==
    Converted =>
        \A i \in 1..Len(Tests) :
            LET n == test_name_of(SourceRecords[i])
            IN  ~HasBoth(n) => InfoOfName(Tests[i], n)

\* The unbalanced name "[a-a" was converted to an entry with testInfo.
C6_Witness ==
    /\ Converted
    /\ Len(Tests) = 1
    /\ test_name_of(SourceRecords[1]) = <<"[", "a", "-", "a">>
    /\ InfoOfName(Tests[1], <<"[", "a", "-", "a">>)

\* C7: with a non-empty summary and a report that has a url the conversion
\* returns a document whose info.summary is the caller's and whose
\* info.description is the default derived from the url.
C7_Claim ==
    (Called /\ Parsed /\ Truthy(summary) /\ "url" \in DOMAIN mp_file.doc) =>
        /\ Converted
        /\ execution.value.info.summary = summary
        /\ execution.value.info.description = DescriptionPrefix \o mp_file.doc["url"]

DetailsAbsent(mp) ==
    "test_cases" \notin DOMAIN mp \/ "details" \notin DOMAIN mp["test_cases"]

\* C8: a report (with its url) whose test_cases or details is missing
\* converts without error to tests = [] and a non-empty info.summary.
C8_Claim ==
    (Called /\ Parsed /\ "url" \in DOMAIN mp_file.doc /\ DetailsAbsent(mp_file.doc)) =>
        /\ Converted
        /\ Tests = <<>>
        /\ execution.value.info.summary # <<>>

-----------------------------------------------------------------------------
(* XrayResultImporter and the __main__ script *)

\* Response.raise_for_status() raises HTTPError for a 4xx or 5xx status.
raise_for_status(r) == 400 <= r.status_code /\ r.status_code < 600

\* Response.ok: True unless raise_for_status() would raise.
ok(r) == ~raise_for_status(r)

\* Response.json() on the bodies of the model: "{}" parses, the rest do not.
json_of(r) ==
    IF r.text = <<"{", "}">> THEN Return(EmptyDict) ELSE Raise("JSONDecodeError")

StatusCodes == {200, 304, 400, 401, 500}

AuthResponses ==
    {[status_code |-> c, text |-> t] :
        c \in StatusCodes, t \in {<<"\"", "t", "\"">>, <<"n", "o">>}}

ImportResponses ==
    {[status_code |-> c, text |-> t] :
        c \in StatusCodes, t \in {<<"{", "}">>, <<"n", "o">>, <<>>}}

CredValues == {None, <<>>, <<"i", "d">>}

MainFiles ==
    {[kind |-> "missing"], [kind |-> "unreadable"], [kind |-> "invalid"],
     [kind |-> "json", doc |-> [url |-> Url]],
     [kind |-> "json",
      doc |-> [url |-> Url,
               test_cases |-> [details |->
                   <<[results |-> <<[test_case |-> [name |-> <<"B">>],
                                     status |-> failed]>>]>>]]]}

AuthRequest ==
    [endpoint |-> "/api/v2/authenticate",
     json |-> [client_id |-> args.client_id, client_secret |-> args.client_secret]]

ImportRequest ==
    [endpoint |-> "/api/v2/import/execution",
     headers |-> [Authorization |-> <<"B", "e", "a", "r", "e", "r", " ">> \o token],
     json |-> execution.value]

FailureLine(r) == [text |-> "Failed to upload test results. Response:", body |-> r.text]

Init ==
    /\ pc = "parse_args"
    /\ args \in [client_id : CredValues, client_secret : CredValues]
    /\ mp_file \in MainFiles
    /\ summary \in {None, <<"S">>}
    /\ execution = Pending
    /\ token = None
    /\ resp = Pending
    /\ network = <<>>
    /\ stdout = <<>>
    /\ mp_status = None
    /\ status = "pending"

\* args = parser.parse_args(); parser.error() exits when a credential is
\* missing or empty.
CheckCredentials ==
    /\ pc = "parse_args"
    /\ pc' = IF ~Truthy(args.client_id) \/ ~Truthy(args.client_secret)
             THEN "exit_usage" ELSE "construct"
    /\ UNCHANGED <<mp_status, status, mp_file, summary, execution, args, token,
                   resp, network, stdout>>

\* importer = XrayResultImporter(...): the constructor authenticates.
Construct ==
    /\ pc = "construct"
    /\ \E r \in AuthResponses :
        /\ network' = Append(network, AuthRequest)
        /\ IF raise_for_status(r)
           THEN pc' = "auth_http_error" /\ token' = token
           ELSE pc' = "convert" /\ token' = strip(r.text, "\"")
    /\ UNCHANGED <<mp_status, status, mp_file, summary, execution, args, resp, stdout>>

\* payload = convert_magicpod_to_xray(args.magicpod_json, args.summary)
Convert ==
    /\ pc = "convert"
    /\ execution' = convert_magicpod_to_xray(mp_file, summary)
    /\ pc' = IF execution'.kind = "return" THEN "print_payload" ELSE "convert_failed"
    /\ UNCHANGED <<mp_status, status, mp_file, summary, args, token, resp, network,
                   stdout>>

\* The payload is printed before it is sent.
PrintPayload ==
    /\ pc = "print_payload"
    /\ stdout' = stdout \o <<[text |-> "Payload being sent to Xray:"],
                             [json |-> execution.value]>>
    /\ pc' = "import_post"
    /\ UNCHANGED <<mp_status, status, mp_file, summary, execution, args, token,
                   resp, network>>

\* import_results: the POST and its response.
ImportPost ==
    /\ pc = "import_post"
    /\ \E r \in ImportResponses :
        /\ network' = Append(network, ImportRequest)
        /\ resp' = r
    /\ pc' = "import_check"
    /\ UNCHANGED <<mp_status, status, mp_file, summary, execution, args, token,
                   stdout>>

\* A bug the failure branch could have: nothing is printed before the raise.
ImportReportFailure_silent ==
    /\ pc = "import_check"
    /\ ~ok(resp)
    /\ pc' = "import_raise"
    /\ UNCHANGED <<mp_status, status, mp_file, summary, execution, args, token,
                   resp, network, stdout>>

\* import_results: `if not resp.ok:` prints the response body.
ImportReportFailure ==
    /\ pc = "import_check"
    /\ ~ok(resp)
    /\ stdout' = Append(stdout, FailureLine(resp))
    /\ pc' = "import_raise"
    /\ UNCHANGED <<mp_status, status, mp_file, summary, execution, args, token,
                   resp, network>>

\* import_results: resp.raise_for_status() after the print.
ImportRaise ==
    /\ pc = "import_raise"
    /\ pc' = IF raise_for_status(resp) THEN "import_http_error"
             ELSE IF json_of(resp).kind = "return" THEN "print_response"
             ELSE "import_json_error"
    /\ UNCHANGED <<mp_status, status, mp_file, summary, execution, args, token,
                   resp, network, stdout>>

\* import_results: `return resp.json()` when resp.ok.
ImportReturn ==
    /\ pc = "import_check"
    /\ ok(resp)
    /\ pc' = IF json_of(resp).kind = "return" THEN "print_response"
             ELSE "import_json_error"
    /\ UNCHANGED <<mp_status, status, mp_file, summary, execution, args, token,
                   resp, network, stdout>>

\* The response is printed; the credentials are tested once more.
PrintResponse ==
    /\ pc = "print_response"
    /\ stdout' = stdout \o <<[text |-> "Upload successful. Xray response:"],
                             [json |-> json_of(resp).value]>>
    /\ pc' = IF ~Truthy(args.client_id) \/ ~Truthy(args.client_secret)
             THEN "exit_usage" ELSE "done"
    /\ UNCHANGED <<mp_status, status, mp_file, summary, execution, args, token,
                   resp, network>>

Next ==
    \/ CheckCredentials
    \/ Construct
    \/ Convert
    \/ PrintPayload
    \/ ImportPost
    \/ ImportReportFailure
    \/ ImportRaise
    \/ ImportReturn
    \/ PrintResponse

Spec == Init /\ [][Next]_vars

-----------------------------------------------------------------------------
(* Claims about the __main__ script and import_results *)

InputFormatErrors == {"FileNotFoundError", "PermissionError", "JSONDecodeError"}

\* C9: when the source report is missing, unreadable or not valid JSON, no
\* authentication request and no import request has been sent.
C9_Claim ==
    (pc = "convert_failed" /\ execution.exc \in InputFormatErrors) => network = <<>>

Received == resp # Pending

ErrorStatus(r) == r.status_code >= 400

BodyPrinted == \E i \in 1..Len(stdout) : stdout[i] = FailureLine(resp)

====
